---- MODULE Spec2Model ----
(***************************************************************************)
(* A model of circle_plotter.py: the CirclePlotter configuration object    *)
(* (validated properties, the lazily cached pad), the PlotAttributes style *)
(* record, and the circle_generator layout generator, one action per       *)
(* call of a setter or of next() on the generator.                         *)
(*                                                                         *)
(* Lengths (radius, x, y) are integers in a common unit; the code uses     *)
(* floats, whose rounding is not modelled.  Opacity is an integer in       *)
(* units of 1/AlphaOne.                                                    *)
(***************************************************************************)
EXTENDS Integers, Sequences, FiniteSets, TLC

\* ---------------------------------------------------------------- bounds

\* The longest dataset (number of rows) a run is started on.
MaxRows == 5
\* The largest circles_per_column supplied.
MaxCpc == 2

\* ------------------------------------------------------- domains of inputs

\* Python's None.
None == <<>>

\* Group identifiers that occur in datasets and style mappings.
GroupIds == {"a", "b"}
\* Values of the ordering column.
Keys == {1, 2}
\* The columns every DataFrame of the model has.
Columns == {"group", "key"}

\* Values supplied as radius, x_init, y_init and circles_per_column.
RadiusInputs == {-1, 0, 1, 2}
InitInputs == {-1, 0, 1}
CpcInputs == (-1) .. MaxCpc

\* Opacity 1.0 in the unit of the model (so 1 is 0.5 and 3 is 1.5).
AlphaOne == 2

\* A number (float or int) and a value that is neither.
Num(v) == [t |-> "float", v |-> v]
NotNum == [t |-> "str", v |-> 0]

\* ------------------------------------------------------------------ state

VARIABLES
    _radius,             \* CirclePlotter._radius
    _pad,                \* CirclePlotter._pad: None, or <<v>> for the cached pad v
    _x_init,             \* CirclePlotter._x_init
    _y_init,             \* CirclePlotter._y_init
    circles_per_column,  \* CirclePlotter.circles_per_column (a plain attribute)
    _plot_attributes,    \* CirclePlotter._plot_attributes: the dict's <<key, PlotAttributes>> in insertion order
    input_data,          \* the generator's argument input_data
    group,               \* the generator's argument group (a column name)
    order,               \* the generator's argument order (column names)
    pc,                  \* where the generator is suspended
    x,                   \* the generator's local x
    y,                   \* the generator's local y (unbound before the first row)
    i,                   \* the generator's local i: index of the row in its group
    gi,                  \* position of the current group in the groupby iteration (1-based)
    circle_pad,          \* the generator's local circle_pad
    group_pad,           \* the generator's local group_pad
    point_history,       \* the current group's CirclePointHistory
    out,                 \* the records the generator has yielded so far
    raised,              \* the exception the most recent call raised, "" if none
    other,               \* a second generator of the plotter, suspended: its pc, locals and output
    mapping,             \* the dict object the caller keeps and assigns to plot_attributes
    tie_order            \* how the installed sort leaves rows with equal keys

config == <<_radius, _pad, _x_init, _y_init, circles_per_column, _plot_attributes>>
call == <<input_data, group, order>>
locals == <<x, y, i, gi, circle_pad, group_pad, point_history>>
world == <<other, mapping, tie_order>>
vars == <<config, call, locals, pc, out, raised, world>>

\* ---------------------------------------------------------- PlotAttributes

\* matplotlib.colors.is_color_like, on the colors of the model.
is_color_like(value) == value \in {"red", "blue"}

\* PlotAttributes.color setter: the exception it raises, "" if none.
color_setter(value) == IF ~is_color_like(value) THEN "ValueError" ELSE ""

\* PlotAttributes.alpha setter: the exception it raises, "" if none.
\* Python's chained comparison 0 > value <= 1 is (0 > value) and (value <= 1).
alpha_setter(value) ==
    IF value.t # "float" THEN "TypeError"
    ELSE IF 0 > value.v /\ value.v <= AlphaOne THEN "ValueError"
    ELSE ""

\* PlotAttributes.__init__: color, then alpha, then label are assigned.
PlotAttributesInit(color, alpha, label) ==
    IF color_setter(color) # "" THEN [raised |-> color_setter(color)]
    ELSE IF alpha_setter(alpha) # "" THEN [raised |-> alpha_setter(alpha)]
    ELSE [raised |-> "",
          obj |-> [kind |-> "PlotAttributes", color |-> color,
                   alpha |-> alpha, label |-> label]]

\* ------------------------------------------------------ dicts (ordered)

HasKey(d, k) == \E n \in 1..Len(d) : d[n][1] = k
GetItem(d, k) == d[CHOOSE n \in 1..Len(d) : d[n][1] = k][2]

\* ------------------------------------------------- CirclePlotter properties

\* The radius setter without the invalidation of the cached pad.
SetRadius_KeepPad(value) ==
    /\ IF value <= 0
       THEN /\ raised' = "ValueError"
            /\ UNCHANGED <<_pad, _radius>>
       ELSE /\ _radius' = value
            /\ raised' = ""
            /\ UNCHANGED _pad
    /\ UNCHANGED <<_x_init, _y_init, circles_per_column, _plot_attributes>>
    /\ UNCHANGED <<call, locals, pc, out, world>>

\* radius setter.
SetRadius(value) ==
    /\ IF value <= 0
       THEN /\ raised' = "ValueError"
            /\ UNCHANGED <<_pad, _radius>>
       ELSE /\ _pad' = None
            /\ _radius' = value
            /\ raised' = ""
    /\ UNCHANGED <<_x_init, _y_init, circles_per_column, _plot_attributes>>
    /\ UNCHANGED <<call, locals, pc, out, world>>

\* pad with the cached value added to at every read.
pad_Grows == IF _pad = None THEN 2 * _radius ELSE _pad[1] + 2 * _radius

\* What the pad property returns.
pad == IF _pad = None THEN 2 * _radius ELSE _pad[1]

\* A read of the pad property: the value it returns is cached.
ReadPad ==
    /\ _pad' = <<pad>>
    /\ raised' = ""
    /\ UNCHANGED <<_radius, _x_init, _y_init, circles_per_column, _plot_attributes>>
    /\ UNCHANGED <<call, locals, pc, out, world>>

\* x_init setter.
SetXInit(value) ==
    /\ IF value < 0
       THEN /\ raised' = "ValueError"
            /\ UNCHANGED _x_init
       ELSE /\ _x_init' = value
            /\ raised' = ""
    /\ UNCHANGED <<_radius, _pad, _y_init, circles_per_column, _plot_attributes>>
    /\ UNCHANGED <<call, locals, pc, out, world>>

\* y_init setter.
SetYInit(value) ==
    /\ IF value < 0
       THEN /\ raised' = "ValueError"
            /\ UNCHANGED _y_init
       ELSE /\ _y_init' = value
            /\ raised' = ""
    /\ UNCHANGED <<_radius, _pad, _x_init, circles_per_column, _plot_attributes>>
    /\ UNCHANGED <<call, locals, pc, out, world>>

\* circles_per_column is a plain attribute: an assignment stores any value.
SetCirclesPerColumn(value) ==
    /\ circles_per_column' = value
    /\ raised' = ""
    /\ UNCHANGED <<_radius, _pad, _x_init, _y_init, _plot_attributes>>
    /\ UNCHANGED <<call, locals, pc, out, world>>

\* The loop of the plot_attributes setter over the items of value, from entry
\* n: the exception raised, or the items with every entry converted.
RECURSIVE ConvertFrom(_, _)
ConvertFrom(value, n) ==
    IF n > Len(value) THEN [raised |-> "", value |-> value]
    ELSE LET attributes == value[n][2] IN
         IF attributes.kind # "tuple" THEN [raised |-> "TypeError", value |-> value]
         ELSE IF Len(attributes.items) # 3 THEN [raised |-> "ValueError", value |-> value]
         ELSE LET made == PlotAttributesInit(attributes.items[1], attributes.items[2],
                                             attributes.items[3]) IN
              IF made.raised # "" THEN [raised |-> made.raised, value |-> value]
              ELSE ConvertFrom([value EXCEPT ![n] = <<value[n][1], made.obj>>], n + 1)

\* A dict with the given items (<<key, value>> in insertion order), and a
\* value that is no dict.
Dict(items) == [dict |-> TRUE, items |-> items]
NotADict == [dict |-> FALSE, items |-> <<>>]

\* plot_attributes setter, as far as the plotter goes: the exception raised,
\* or the value stored.
plot_attributes_setter(value) ==
    /\ IF ~value.dict
       THEN /\ raised' = "TypeError"
            /\ UNCHANGED _plot_attributes
       ELSE LET done == ConvertFrom(value.items, 1) IN
              IF done.raised # ""
              THEN /\ raised' = done.raised
                   /\ UNCHANGED _plot_attributes
              ELSE /\ _plot_attributes' = done.value
                   /\ raised' = ""
    /\ UNCHANGED <<_radius, _pad, _x_init, _y_init, circles_per_column>>
    /\ UNCHANGED <<call, locals, pc, out>>

\* plot_attributes setter, given a dict the caller does not keep.
SetPlotAttributes(value) ==
    /\ plot_attributes_setter(value)
    /\ UNCHANGED world

\* plot_attributes setter, given the dict object the caller keeps: the loop
\* stores each PlotAttributes it makes in that very dict, entry by entry, up to
\* the entry it raises at, and the dict stored is that object.  The caller
\* notes how each assignment of the object ended.
SetPlotAttributesOfMapping ==
    /\ mapping # None
    /\ plot_attributes_setter(Dict(mapping.items))
    /\ mapping' = [mapping EXCEPT !.items = ConvertFrom(mapping.items, 1).value,
                                  !.results = Append(mapping.results, raised')]
    /\ UNCHANGED <<other, tie_order>>

\* An assignment to the alpha of the style record stored under key k.
SetAlpha(k, value) ==
    /\ HasKey(_plot_attributes, k)
    /\ IF alpha_setter(value) # ""
       THEN /\ raised' = alpha_setter(value)
            /\ UNCHANGED _plot_attributes
       ELSE /\ _plot_attributes' =
                 [n \in 1..Len(_plot_attributes) |->
                    IF _plot_attributes[n][1] = k
                    THEN <<k, [_plot_attributes[n][2] EXCEPT !.alpha = value]>>
                    ELSE _plot_attributes[n]]
            /\ raised' = ""
    /\ UNCHANGED <<_radius, _pad, _x_init, _y_init, circles_per_column>>
    /\ UNCHANGED <<call, locals, pc, out, world>>

\* ------------------------------------------------------------ the dataset

\* A row of a DataFrame: the values of its columns group and key.
Row == GroupIds \X Keys
\* The datasets runs are started on: the groups of the rows are free, and
\* the ordering keys alternate 1, 2, 1, ... down the rows, so that a group's
\* rows come with keys in either order and with ties.
KeyAt(n) == 2 - (n % 2)
Datasets ==
    UNION {{[n \in 1..len |-> <<gs[n], KeyAt(n)>>] : gs \in [1..len -> GroupIds]} :
           len \in 0..MaxRows}
DataFrame(rows) == [frame |-> TRUE, rows |-> rows]
\* An input_data that is no DataFrame.
NotAFrame == [frame |-> FALSE, rows |-> <<>>]

\* The operators below use their argument many times over, and TLC evaluates
\* an argument anew at each use: each takes its value from a set of one
\* element, {F(d) : d \in {v}}, which evaluates the argument v once.
\* The sequence s, built: TLC keeps [k \in 1..n |-> e] as a rule to apply.
Tuple(s) == s \o <<>>

\* input_data.groupby(group, sort=False): the group keys in the order of their
\* first occurrence.
GroupKeys(rows) ==
    LET Keys_(r) ==
          LET firsts == {n \in 1..Len(r) : \A k \in 1..(n - 1) : r[k][1] # r[n][1]}
              At(k) == CHOOSE n \in firsts : Cardinality({j \in firsts : j <= n}) = k
          IN Tuple([k \in 1..Cardinality(firsts) |-> r[At(k)][1]])
    IN CHOOSE s \in {Keys_(d) : d \in {rows}} : TRUE

\* The data of one group: its rows in input order, each as itertuples gives it
\* (Index is the row's position in input_data, from 0).
GroupData(rows, g) ==
    LET Data_(a) ==
          LET r == a[1]
              mine == {n \in 1..Len(r) : r[n][1] = a[2]}
              At(k) == CHOOSE n \in mine : Cardinality({j \in mine : j <= n}) = k
          IN Tuple([k \in 1..Cardinality(mine) |->
                      [Index |-> At(k) - 1, group |-> r[At(k)][1], key |-> r[At(k)][2]]])
    IN CHOOSE s \in {Data_(d) : d \in {<<rows, g>>}} : TRUE

\* data.sort_values(by=order, ascending=False), called without kind: pandas
\* sorts with its default, quicksort, which is not a stable sort.  The result
\* is descending by key; rows with equal keys come in the order the installed
\* sort leaves them in, tie_order: in input order ("kept") or not, of which
\* the reverse of the input order ("reversed") stands for every other order.
sort_values(data) ==
    LET Sorted_(d) ==
          LET Before(a, b) ==
                \/ d[a].key > d[b].key
                \/ /\ d[a].key = d[b].key
                   /\ IF tie_order = "kept" THEN a <= b ELSE a >= b
              At(k) == CHOOSE n \in 1..Len(d) :
                         Cardinality({j \in 1..Len(d) : Before(j, n)}) = k
          IN Tuple([k \in 1..Len(d) |-> d[At(k)]])
    IN CHOOSE s \in {Sorted_(d) : d \in {data}} : TRUE

\* _validate_input_data without the loop over the ordering columns.
_validate_input_data_NoOrder(data, grp, ord) ==
    IF ~data.frame THEN "TypeError"
    ELSE IF grp \notin Columns THEN "ValueError"
    ELSE ""

\* _validate_input_data: the exception it raises, "" if none.
_validate_input_data(data, grp, ord) ==
    IF ~data.frame THEN "TypeError"
    ELSE IF grp \notin Columns THEN "ValueError"
    ELSE IF \E n \in 1..Len(ord) : ord[n] \notin Columns THEN "ValueError"
    ELSE ""

\* ---------------------------------------------------------- the generator

\* sum() and max() of a set of numbers.
RECURSIVE Sum(_)
Sum(S) == IF S = {} THEN 0 ELSE LET e == CHOOSE e \in S : TRUE IN e + Sum(S \ {e})
Max(S) == CHOOSE e \in S : \A f \in S : f <= e

\* Python's i % c for c # 0: the result has the sign of c.
PyMod(a, c) == IF c > 0 THEN a % c ELSE -((-a) % (-c))

CirclePointHistory == [x |-> {}, y |-> {}]
add_point(h, px, py) == [x |-> h.x \cup {px}, y |-> h.y \cup {py}]

\* NewPointHistory with one history kept over all groups.
NewPointHistory_Kept(h) == h

\* The point history a group starts with: a new CirclePointHistory, whatever
\* the history h of the group before held.
NewPointHistory(h) == CirclePointHistory

\* The group and the data the groupby iteration gives at position n.
GroupAt(n) == GroupKeys(input_data.rows)[n]
DataAt(n) == GroupData(input_data.rows, GroupAt(n))
NumGroups == Len(GroupKeys(input_data.rows))

\* EnterGroup with the shift taken by the first group too.
EnterGroup_Always(x0, gp) == x0 + gp

\* The shift at the start of a group's iteration, with group_pad gp.
EnterGroup(x0, gp) == IF x0 > _x_init THEN x0 + gp ELSE x0

\* Place with x advanced on every row, not only at the start of a column.
Place_EveryRow(x0, y0, i0, cp, gp) ==
    IF PyMod(i0, circles_per_column) = 0
    THEN [x |-> IF i0 = 0 THEN x0 + gp ELSE x0 + cp, y |-> _y_init]
    ELSE [x |-> x0 + cp, y |-> y0 + cp]

\* Place with y not reset at a wrap inside the group.
Place_NoReset(x0, y0, i0, cp, gp) ==
    IF PyMod(i0, circles_per_column) = 0
    THEN [x |-> IF i0 = 0 THEN x0 + gp ELSE x0 + cp,
          y |-> IF i0 = 0 THEN _y_init ELSE y0 + cp]
    ELSE [x |-> x0, y |-> y0 + cp]

\* Place with x not advanced at a wrap inside the group.
Place_NoColumnShift(x0, y0, i0, cp, gp) ==
    IF PyMod(i0, circles_per_column) = 0
    THEN [x |-> IF i0 = 0 THEN x0 + gp ELSE x0, y |-> _y_init]
    ELSE [x |-> x0, y |-> y0 + cp]

\* Place with y not advanced inside a column.
Place_NoStack(x0, y0, i0, cp, gp) ==
    IF PyMod(i0, circles_per_column) = 0
    THEN [x |-> IF i0 = 0 THEN x0 + gp ELSE x0 + cp, y |-> _y_init]
    ELSE [x |-> x0, y |-> y0]

\* Where row i0 of a group is placed, coming from (x0, y0), with circle_pad cp
\* and group_pad gp.
Place(x0, y0, i0, cp, gp) ==
    IF PyMod(i0, circles_per_column) = 0
    THEN [x |-> IF i0 = 0 THEN x0 + gp ELSE x0 + cp, y |-> _y_init]
    ELSE [x |-> x0, y |-> y0 + cp]

\* IsLastRow with the test on the wrong index: the group's first row.
IsLastRow_FirstRow(i0, count) == i0 = 0

\* Whether row i0 is the last of a group of count rows.
IsLastRow(i0, count) == i0 + 1 = count

\* GroupLabel with the gridline one circle_pad, not one group_pad, to the right.
GroupLabel_CirclePad(g, count, h) ==
    [kind |-> "GroupLabel",
     group_label |-> g,
     group_sublabel |-> GetItem(_plot_attributes, g).label,
     group_count |-> count,
     label_x |-> [num |-> Sum(h.x), den |-> Cardinality(h.x)],
     label_y |-> _y_init + circle_pad * circles_per_column,
     gridline_x |-> Max(h.x) + circle_pad]

\* The GroupLabel of group g of count rows, whose point history is h.
GroupLabel(g, count, h) ==
    [kind |-> "GroupLabel",
     group_label |-> g,
     group_sublabel |-> GetItem(_plot_attributes, g).label,
     group_count |-> count,
     label_x |-> [num |-> Sum(h.x), den |-> Cardinality(h.x)],
     label_y |-> _y_init + circle_pad * circles_per_column,
     gridline_x |-> Max(h.x) + group_pad]

\* The generator raises e: it is finished, and yields nothing more.
Raise(e) ==
    /\ raised' = e
    /\ pc' = "failed"
    /\ UNCHANGED out

\* The body of the inner loop for row i0 of group n, up to its first yield.
\* The primed pads are those of this run: NextCreated sets them, the other
\* steps leave them unchanged.
ProcessRow(n, x0, y0, i0, h0) ==
    /\ gi' = n
    /\ i' = i0
    /\ IF circles_per_column = 0
       THEN /\ Raise("ZeroDivisionError")
            /\ x' = x0
            /\ y' = y0
            /\ point_history' = h0
       ELSE LET at == Place(x0, y0, i0, circle_pad', group_pad')
                data == DataAt(n)
            IN /\ x' = at.x
               /\ y' = at.y
               /\ point_history' = add_point(h0, at.x, at.y)
               /\ out' = Append(out, [kind |-> "CircleAttributes",
                                      group |-> GroupAt(n),
                                      count |-> Len(data),
                                      row |-> sort_values(data)[i0 + 1],
                                      x |-> at.x,
                                      y |-> at.y])
               /\ pc' = "circle"
               /\ raised' = ""

\* The outer loop arriving at group n (or at its end), coming from x0.
\* pandas' sort_values raises a KeyError for a column the data does not have.
EnterOrStop(n, x0) ==
    IF n > NumGroups
    THEN /\ pc' = "done"
         /\ raised' = "StopIteration"
         /\ x' = x0
         /\ UNCHANGED <<y, i, gi, point_history, out>>
    ELSE IF \E k \in 1..Len(order) : order[k] \notin Columns
    THEN /\ Raise("KeyError")
         /\ x' = EnterGroup(x0, group_pad')
         /\ gi' = n
         /\ point_history' = NewPointHistory(point_history)
         /\ UNCHANGED <<y, i>>
    ELSE ProcessRow(n, EnterGroup(x0, group_pad'), y, 0, NewPointHistory(point_history))

\* Advance with the generator returning after its first group.
Advance_OneGroup ==
    IF i + 1 < Len(DataAt(gi))
    THEN ProcessRow(gi, x, y, i + 1, point_history)
    ELSE EnterOrStop(NumGroups + 1, x)

\* The inner loop going on after row i: to the group's next row, or to the
\* next group.
Advance ==
    IF i + 1 < Len(DataAt(gi))
    THEN ProcessRow(gi, x, y, i + 1, point_history)
    ELSE EnterOrStop(gi + 1, x)

\* circle_generator(input_data, group, order): a generator object is made, and
\* none of its body runs.
CircleGenerator(data, grp, ord) ==
    /\ pc = "none"
    /\ input_data' = data
    /\ group' = grp
    /\ order' = ord
    /\ pc' = "created"
    /\ raised' = ""
    /\ UNCHANGED <<config, locals, out, world>>

\* next() on a generator that has not run yet.  After the validation, x and
\* the pads are set (the read of self.pad caches it) and groupby is called:
\* pandas raises an AttributeError for what has no groupby and a KeyError for
\* a column the DataFrame does not have.
NextCreated ==
    /\ pc = "created"
    /\ UNCHANGED <<call, _radius, _x_init, _y_init, circles_per_column, _plot_attributes, world>>
    /\ LET bad == _validate_input_data(input_data, group, order) IN
         IF bad # ""
         THEN /\ Raise(bad)
              /\ UNCHANGED <<_pad, locals>>
         ELSE /\ _pad' = <<pad>>
              /\ circle_pad' = 3 * _radius
              /\ group_pad' = 2 * _radius + pad
              /\ IF ~input_data.frame \/ group \notin Columns
                 THEN /\ Raise(IF ~input_data.frame THEN "AttributeError" ELSE "KeyError")
                      /\ x' = _x_init
                      /\ UNCHANGED <<y, i, gi, point_history>>
                 ELSE EnterOrStop(1, _x_init)

\* next() on a generator suspended at the yield of a CircleAttributes.
NextAfterCircle ==
    /\ pc = "circle"
    /\ UNCHANGED <<config, call, circle_pad, group_pad, world>>
    /\ LET count == Len(DataAt(gi)) IN
         IF IsLastRow(i, count)
         THEN IF ~HasKey(_plot_attributes, GroupAt(gi))
              THEN /\ Raise("KeyError")
                   /\ UNCHANGED <<x, y, i, gi, point_history>>
              ELSE /\ out' = Append(out, GroupLabel(GroupAt(gi), count, point_history))
                   /\ pc' = "label"
                   /\ raised' = ""
                   /\ UNCHANGED <<x, y, i, gi, point_history>>
         ELSE Advance

\* next() on a generator suspended at the yield of a GroupLabel.
NextAfterLabel ==
    /\ pc = "label"
    /\ UNCHANGED <<config, call, circle_pad, group_pad, world>>
    /\ Advance

\* No generator exists: its arguments and locals are not bound.
NoGenerator ==
    /\ input_data = NotAFrame
    /\ group = ""
    /\ order = <<>>
    /\ pc = "none"
    /\ x = 0
    /\ y = 0
    /\ i = 0
    /\ gi = 0
    /\ circle_pad = 0
    /\ group_pad = 0
    /\ point_history = CirclePointHistory
    /\ out = <<>>

\* A suspended generator: its position, its locals and what it has yielded.
Frame(p, l, o) == [pc |-> p, locals |-> l, out |-> o]
NoFrame == Frame("none", <<0, 0, 0, 0, 0, 0, CirclePointHistory>>, <<>>)

\* One generator at a time, a style mapping the caller does not keep, and a
\* sort that leaves equal keys in input order.
Alone ==
    /\ other = NoFrame
    /\ mapping = None
    /\ tie_order = "kept"

\* The caller drops a generator that is exhausted or has raised.
Discard ==
    /\ pc \in {"done", "failed"}
    /\ input_data' = NotAFrame
    /\ group' = ""
    /\ order' = <<>>
    /\ pc' = "none"
    /\ x' = 0
    /\ y' = 0
    /\ i' = 0
    /\ gi' = 0
    /\ circle_pad' = 0
    /\ group_pad' = 0
    /\ point_history' = CirclePointHistory
    /\ out' = <<>>
    /\ raised' = ""
    /\ UNCHANGED <<config, world>>

\* next() on a generator that is exhausted or has raised: StopIteration, and
\* nothing is yielded.
NextExhausted ==
    /\ pc \in {"done", "failed"}
    /\ raised' = "StopIteration"
    /\ UNCHANGED <<config, call, locals, pc, out, world>>

\* ------------------------------------------------------ the specification

\* The style mappings supplied: a dict over some of the groups, "a" inserted
\* before "b", each entry a (color, alpha, label) tuple.
Tuple3(g) == [kind |-> "tuple", items |-> <<"red", Num(AlphaOne), g>>]
StyleDicts ==
    {Dict(<<>>), Dict(<<<<"a", Tuple3("a")>>>>), Dict(<<<<"b", Tuple3("b")>>>>),
     Dict(<<<<"a", Tuple3("a")>>, <<"b", Tuple3("b")>>>>)}
\* Values that are rejected: a mapping with an entry of two elements, and a
\* value that is no dict.
BadStyleDicts ==
    {Dict(<<<<"a", [kind |-> "tuple", items |-> <<"red", Num(AlphaOne)>>]>>>>), NotADict}

\* The calls of circle_generator: a dataset with its own columns named, or an
\* argument that fails validation.
GoodCalls == {<<DataFrame(rows), "group", <<"key">>>> : rows \in Datasets}
BadCalls ==
    {<<NotAFrame, "group", <<"key">>>>}
    \cup {<<DataFrame(rows), "nogroup", <<"key">>>> : rows \in {r \in Datasets : Len(r) <= 1}}
    \cup {<<DataFrame(rows), "group", ord>> :
            rows \in {r \in Datasets : Len(r) <= 1},
            ord \in {<<"nokey">>, <<"key", "nokey">>}}
Calls == GoodCalls \cup BadCalls

\* CirclePlotter(plot_attributes, radius, x_init, y_init, circles_per_column)
\* with arguments every setter accepts.
Init ==
    /\ _radius \in {v \in RadiusInputs : ~(v <= 0)}
    /\ _pad = None
    /\ _x_init \in {v \in InitInputs : ~(v < 0)}
    /\ _y_init \in {v \in InitInputs : ~(v < 0)}
    /\ circles_per_column \in CpcInputs
    /\ _plot_attributes \in {ConvertFrom(d.items, 1).value : d \in StyleDicts}
    /\ NoGenerator
    /\ Alone
    /\ raised = ""

\* In Spec the configuration is read and assigned while no generator exists:
\* it is fixed for the lifetime of a generator.
AssignRadius == pc = "none" /\ \E v \in RadiusInputs : SetRadius(v)
GetPad == pc = "none" /\ ReadPad
AssignXInit == pc = "none" /\ \E v \in InitInputs : SetXInit(v)
AssignYInit == pc = "none" /\ \E v \in InitInputs : SetYInit(v)
AssignCirclesPerColumn == pc = "none" /\ \E v \in CpcInputs : SetCirclesPerColumn(v)
AssignPlotAttributes ==
    pc = "none" /\ \E d \in StyleDicts \cup BadStyleDicts : SetPlotAttributes(d)

Start == \E c \in Calls : CircleGenerator(c[1], c[2], c[3])

Next ==
    \/ AssignRadius
    \/ GetPad
    \/ AssignXInit
    \/ AssignYInit
    \/ AssignCirclesPerColumn
    \/ AssignPlotAttributes
    \/ Start
    \/ NextCreated
    \/ NextAfterCircle
    \/ NextAfterLabel
    \/ Discard

Spec == Init /\ [][Next]_vars

\* The style records and assignments on their own: the plotter is constructed
\* from an empty mapping with the other arguments fixed; then mappings whose
\* entries vary in color, opacity and shape are assigned, and opacities are
\* assigned to the stored style records.
AlphaInputs == {Num(-1), Num(0), Num(1), Num(AlphaOne), Num(AlphaOne + 1), NotNum}
AttributeInputs(g) ==
    {[kind |-> "tuple", items |-> <<c, a, g>>] : c \in {"red", "blue"}, a \in AlphaInputs}
    \cup {[kind |-> "tuple", items |-> <<"notacolor", Num(AlphaOne), g>>],
          [kind |-> "tuple", items |-> <<"red", Num(AlphaOne)>>]}
StyleInputs ==
    {Dict(<<>>), NotADict}
    \cup UNION {{Dict(<<<<g, t>>>>) : t \in AttributeInputs(g)} : g \in GroupIds}
    \cup {Dict(<<<<"a", t>>, <<"b", u>>>>) : t \in AttributeInputs("a"), u \in AttributeInputs("b")}

InitStyle ==
    /\ _radius = 1
    /\ _pad = None
    /\ _x_init = 0
    /\ _y_init = 1
    /\ circles_per_column = MaxCpc
    /\ _plot_attributes = <<>>
    /\ NoGenerator
    /\ Alone
    /\ raised = ""

AssignStyle == \E d \in StyleInputs : SetPlotAttributes(d)
AssignAlpha == \E k \in GroupIds, a \in AlphaInputs : SetAlpha(k, a)

NextStyle ==
    \/ AssignStyle
    \/ AssignAlpha

SpecStyle == InitStyle /\ [][NextStyle]_vars

\* ------------------------------------------------- reading the output

\* The rows of the dataset of the current call.
Rows == input_data.rows
\* The groups that occur in the dataset, and the number of rows of each.
GroupsOf(rows) == {rows[n][1] : n \in 1..Len(rows)}
RowCount(rows, g) == Cardinality({n \in 1..Len(rows) : rows[n][1] = g})

IsPlacement(r) == r.kind = "CircleAttributes"
IsSummary(r) == r.kind = "GroupLabel"
\* The group a yielded record belongs to.
GroupOfRecord(r) == IF IsPlacement(r) THEN r.group ELSE r.group_label

\* The positions in out of the placements and of the summaries of group g.
PlacementsOf(g) == {n \in 1..Len(out) : IsPlacement(out[n]) /\ out[n].group = g}
SummariesOf(g) == {n \in 1..Len(out) : IsSummary(out[n]) /\ out[n].group_label = g}
\* The positions in out of all placements.
AllPlacements == {n \in 1..Len(out) : IsPlacement(out[n])}
\* The placement before the one at position n, 0 if there is none.
PrevPlacement(n) ==
    IF \E m \in AllPlacements : m < n
    THEN Max({m \in AllPlacements : m < n})
    ELSE 0
\* The index within its group of the placement at position n (from 0).
IndexInGroup(n) == Cardinality({m \in PlacementsOf(out[n].group) : m < n})
\* The x values of the placements of group g.
XsOf(g) == {out[n].x : n \in PlacementsOf(g)}

Contiguous(S) == \A a \in S, b \in S : \A m \in a..b : m \in S
IsMultipleOf(a, c) == \E k \in (-a)..a : a = k * c
CeilDiv(n, c) == (n + c - 1) \div c

\* A generator has run on a call that passed validation, in a configuration
\* every attribute of which is as the data model requires.
ValidCall == input_data.frame /\ group \in Columns /\ \A k \in 1..Len(order) : order[k] \in Columns
Ended == pc \in {"done", "failed"}

\* Every group has all its placements, contiguous, and its one summary right
\* after the last of them.
FullyEmitted ==
    \A g \in GroupsOf(Rows) :
      /\ Cardinality(PlacementsOf(g)) = RowCount(Rows, g)
      /\ Contiguous(PlacementsOf(g))
      /\ SummariesOf(g) = {Max(PlacementsOf(g)) + 1}

\* ---------------------------------------------------------------- claims

C2_XNonDecreasing ==
    \A n \in AllPlacements :
      LET m == PrevPlacement(n) IN
        m # 0 =>
          /\ out[m].x <= out[n].x
          /\ out[m].x # out[n].x =>
               \/ out[m].group # out[n].group
               \/ IsMultipleOf(IndexInGroup(n), circles_per_column)

\* A run in which x stays within a column, moves at a column wrap and moves at
\* a group boundary.
C2_Witness ==
    \E a \in AllPlacements, b \in AllPlacements, c \in AllPlacements :
      /\ PrevPlacement(a) # 0 /\ PrevPlacement(b) # 0 /\ PrevPlacement(c) # 0
      /\ out[PrevPlacement(a)].group = out[a].group
      /\ out[PrevPlacement(a)].x = out[a].x
      /\ out[PrevPlacement(b)].group = out[b].group
      /\ out[PrevPlacement(b)].x < out[b].x
      /\ out[PrevPlacement(c)].group # out[c].group
      /\ out[PrevPlacement(c)].x < out[c].x

\* C3: of two consecutive placements of one group in one column, the second
\* has the y of the first plus 3 * radius; the first placement of every column
\* (its index in the group is a multiple of circles_per_column, the group's
\* first column included) has y = y_init.
C3_ColumnY ==
    \A n \in AllPlacements :
      IF IsMultipleOf(IndexInGroup(n), circles_per_column)
      THEN out[n].y = _y_init
      ELSE /\ PrevPlacement(n) # 0
           /\ out[PrevPlacement(n)].group = out[n].group
           /\ out[PrevPlacement(n)].x = out[n].x
           /\ out[n].y = out[PrevPlacement(n)].y + 3 * _radius

\* A group with a column of two placements followed by a wrap, with a radius
\* other than 1 and a y_init other than 0.
C3_Witness ==
    /\ _radius = 2
    /\ _y_init = 1
    /\ \E n \in AllPlacements :
         /\ IndexInGroup(n) = 2
         /\ circles_per_column = 2
         /\ out[n].y = 1
         /\ out[PrevPlacement(n)].y = 7

\* C4: for a group of n >= 1 rows and circles_per_column c >= 1, the group's
\* placements use exactly ceil(n/c) distinct x values; every column but the
\* last holds exactly c placements and the last holds n - c*(ceil(n/c) - 1).
\* Stated of every group all of whose rows have been placed.
C4_ColumnCount ==
    \A g \in GroupsOf(Rows) :
      LET n == RowCount(Rows, g)
          c == circles_per_column
          InColumn(v) == Cardinality({m \in PlacementsOf(g) : out[m].x = v})
      IN (c >= 1 /\ Cardinality(PlacementsOf(g)) = n) =>
           /\ Cardinality(XsOf(g)) = CeilDiv(n, c)
           /\ \A v \in XsOf(g) :
                IF v = Max(XsOf(g))
                THEN InColumn(v) = n - c * (CeilDiv(n, c) - 1)
                ELSE InColumn(v) = c

\* A group of 5 rows placed with circles_per_column = 2: 3 columns, 1 placement
\* in the last.
C4_Witness ==
    \E g \in GroupsOf(Rows) :
      /\ circles_per_column = 2
      /\ RowCount(Rows, g) = 5
      /\ Cardinality(PlacementsOf(g)) = 5
      /\ Cardinality(XsOf(g)) = 3

\* C5: the gridline_x of a group's GroupSummary is the largest x of the
\* group's placements plus 2 * radius + pad.
C5_GridlineX ==
    \A n \in 1..Len(out) :
      IsSummary(out[n]) =>
        out[n].gridline_x = Max(XsOf(out[n].group_label)) + 2 * _radius + pad

\* The summary of a second group that spans two columns, with radius 2.
C5_Witness ==
    \E n \in 1..Len(out) :
      /\ IsSummary(out[n])
      /\ _radius = 2
      /\ Cardinality(XsOf(out[n].group_label)) = 2
      /\ \E m \in 1..(n - 1) : IsSummary(out[m])

\* C6: the label_x of a group's GroupSummary is the arithmetic mean of the
\* distinct x values of that group's placements (each column once), and of no
\* x of an earlier group.  label_x is the quotient num / den.
C6_LabelX ==
    \A n \in 1..Len(out) :
      IsSummary(out[n]) =>
        LET D == XsOf(out[n].group_label) IN
          /\ out[n].label_x.den > 0
          /\ out[n].label_x.num * Cardinality(D) = Sum(D) * out[n].label_x.den

\* The summary of a second group whose two columns hold 2 and 1 placements:
\* the mean of the distinct x values is not the mean over all placements.
C6_Witness ==
    \E n \in 1..Len(out) :
      /\ IsSummary(out[n])
      /\ \E m \in 1..(n - 1) : IsSummary(out[m])
      /\ Cardinality(XsOf(out[n].group_label)) = 2
      /\ Cardinality(PlacementsOf(out[n].group_label)) = 3

\* C7 as stated: an opacity is accepted exactly when 0 < opacity <= 1, at the
\* construction of a style record and on an assignment to alpha; so every
\* opacity a style record holds lies in (0, 1].
C7_OpacityInRange ==
    \A n \in 1..Len(_plot_attributes) :
      LET a == _plot_attributes[n][2].alpha IN
        a.t = "float" /\ 0 < a.v /\ a.v <= AlphaOne

\* C8: after any sequence of radius assignments (accepted, or rejected with a
\* ValueError) and reads of pad, the radius held is > 0 and a read of pad
\* returns 2 * the radius held.
C8_PadFollowsRadius ==
    /\ _radius > 0
    /\ pad = 2 * _radius

\* The pad is cached for radius 2 and an assignment to radius was rejected.
C8_Witness ==
    /\ _radius = 2
    /\ _pad = <<4>>
    /\ raised = "ValueError"
    /\ pc = "none"

\* C9 as stated: whenever circle_generator runs, the configuration it reads
\* has radius > 0, x_init >= 0, y_init >= 0 and a positive circles_per_column.
C9_ConfigurationValid ==
    pc # "none" =>
      /\ _radius > 0
      /\ _x_init >= 0
      /\ _y_init >= 0
      /\ circles_per_column >= 1

\* C10: when the dataset is no DataFrame, or the group column or an ordering
\* column is not among its columns, consuming the generator raises a TypeError
\* or a ValueError and the generator yields nothing, before or after.
C10_SchemaErrorFailsFast ==
    (pc # "none" /\ ~ValidCall) =>
      /\ out = <<>>
      /\ pc \in {"created", "failed"}
      /\ pc = "failed" => raised \in {"TypeError", "ValueError"}

\* A generator that failed on a dataset of one row, the second of its ordering
\* columns being absent.
C10_Witness ==
    /\ pc = "failed"
    /\ raised = "ValueError"
    /\ input_data.frame
    /\ Len(Rows) = 1
    /\ order = <<"key", "nokey">>
    /\ out = <<>>

\* The position, in emission order, of the first group that has no entry in
\* the style mapping; 0 when every group has one.
FirstUnstyled ==
    LET S == {n \in 1..NumGroups : ~HasKey(_plot_attributes, GroupAt(n))}
    IN IF S = {} THEN 0 ELSE CHOOSE n \in S : \A k \in S : n <= k

\* The output at the point where the summary of group number k is due: every
\* earlier group's placements and summary, then all placements of group k,
\* and nothing else.
UpToSummaryOf(k) ==
    /\ Len(out) = Cardinality({n \in 1..Len(Rows) :
                                \E j \in 1..k : Rows[n][1] = GroupAt(j)}) + (k - 1)
    /\ \A n \in 1..(k - 1) :
         /\ Cardinality(PlacementsOf(GroupAt(n))) = Len(DataAt(n))
         /\ Cardinality(SummariesOf(GroupAt(n))) = 1
    /\ Cardinality(PlacementsOf(GroupAt(k))) = Len(DataAt(k))
    /\ SummariesOf(GroupAt(k)) = {}
    /\ IsPlacement(out[Len(out)])
    /\ out[Len(out)].group = GroupAt(k)

\* What C11 says of a run on a dataset with an unstyled group g: it never
\* emits g's summary nor anything of a later group, it does not end by
\* exhaustion, and when it has failed the error is the lookup error and the
\* output stops right after g's last placement.
LookupErrorAtSummary ==
    LET k == FirstUnstyled IN
      /\ pc # "done"
      /\ SummariesOf(GroupAt(k)) = {}
      /\ \A n \in 1..Len(out) :
           \E j \in 1..k : GroupOfRecord(out[n]) = GroupAt(j)
      /\ pc = "failed" =>
           /\ raised \in {"KeyError", "StopIteration"}
           /\ UpToSummaryOf(k)

\* C11 as stated: when a group g of the data has no entry in the style
\* mapping, the generator fails with a lookup error exactly where g's summary
\* is due: every earlier group's placements and summary and all of g's
\* placements have been emitted, g has no summary, and nothing follows.
C11_LookupErrorAtSummary ==
    (pc # "none" /\ ValidCall /\ FirstUnstyled # 0) => LookupErrorAtSummary

\* The same for every circles_per_column other than 0, which holds: the only
\* runs that depart from C11 are those that divide by a zero
\* circles_per_column at their first row.
C11_WhenColumnsNonZero ==
    (pc # "none" /\ ValidCall /\ FirstUnstyled # 0 /\ circles_per_column # 0)
      => LookupErrorAtSummary

\* A run that failed with the lookup error at the summary of the second
\* group, after the first group's two placements and summary.
C11_WhenColumnsNonZero_Witness ==
    /\ pc = "failed"
    /\ raised = "KeyError"
    /\ FirstUnstyled = 2
    /\ Len(DataAt(1)) = 2
    /\ Len(DataAt(2)) = 2
    /\ Len(out) = 5

\* C14: with group_margin = 2 * radius + pad and circle_margin = 3 * radius,
\* the first placement of the first group has x = x_init + group_margin; a
\* placement that starts a further column of its group has the x of the
\* previous column plus circle_margin; the first placement of every later
\* group has the last x of the previous group plus 2 * group_margin. x_init is
\* any accepted value, 0 included.
C14_Margins ==
    LET group_margin == 2 * _radius + pad
        circle_margin == 3 * _radius
    IN \A n \in AllPlacements :
         LET m == PrevPlacement(n) IN
           /\ m = 0 => out[n].x = _x_init + group_margin
           /\ (m # 0 /\ out[m].group # out[n].group) =>
                out[n].x = out[m].x + 2 * group_margin
           /\ (m # 0 /\ out[m].group = out[n].group
                 /\ IsMultipleOf(IndexInGroup(n), circles_per_column)) =>
                out[n].x = out[m].x + circle_margin

\* A run with x_init = 0 and radius 2 (group_margin 8, circle_margin 6), in
\* which a group wrapped into a second column and a second group followed.
C14_Witness ==
    /\ _x_init = 0
    /\ _radius = 2
    /\ \E a \in AllPlacements, b \in AllPlacements :
         /\ PrevPlacement(a) # 0 /\ PrevPlacement(b) # 0
         /\ out[1].x = 8
         /\ out[PrevPlacement(a)].group = out[a].group
         /\ out[a].x = out[PrevPlacement(a)].x + 6
         /\ out[PrevPlacement(b)].group # out[b].group
         /\ out[b].x = out[PrevPlacement(b)].x + 16

\* C16: with a valid configuration (circles_per_column >= 1 besides what the
\* setters enforce), no two placements of a run share both x and y: every
\* placement that starts a column, of a new group or inside one, has an x
\* strictly greater than every x used before it, and the placements of one
\* column have pairwise different y.
C16_DistinctPositions ==
    (circles_per_column >= 1 /\ _radius > 0 /\ _x_init >= 0 /\ _y_init >= 0) =>
      /\ \A a \in AllPlacements, b \in AllPlacements :
           (a # b) => <<out[a].x, out[a].y>> # <<out[b].x, out[b].y>>
      /\ \A n \in AllPlacements :
           IsMultipleOf(IndexInGroup(n), circles_per_column) =>
             \A m \in AllPlacements : m < n => out[m].x < out[n].x
      /\ \A a \in AllPlacements, b \in AllPlacements :
           (a # b /\ out[a].x = out[b].x) =>
             /\ out[a].group = out[b].group
             /\ out[a].y # out[b].y

\* A run of two groups in columns of two: a full column, a wrap and a second
\* group that started on the y of the first.
C16_Witness ==
    /\ circles_per_column = 2
    /\ Len(out) >= 5
    /\ \E a \in AllPlacements, b \in AllPlacements, c \in AllPlacements, d \in AllPlacements :
         /\ out[a].x = out[b].x /\ out[a].y < out[b].y
         /\ out[c].group = out[a].group /\ out[c].x > out[a].x /\ out[c].y = out[a].y
         /\ out[d].group # out[a].group /\ out[d].y = out[a].y

\* One generator consumed to its end: a plotter is constructed, a generator
\* is made, and the caller goes on calling next(), also on a generator that
\* has finished; every call of next() returns.
NextConsume ==
    \/ Start
    \/ NextCreated
    \/ NextAfterCircle
    \/ NextAfterLabel
    \/ NextExhausted
SpecConsume ==
    /\ Init
    /\ [][NextConsume]_vars
    /\ WF_vars(NextCreated)
    /\ WF_vars(NextAfterCircle)
    /\ WF_vars(NextAfterLabel)

\* A generator made on a dataset that passes validation, every group of which
\* has a style entry, in a valid configuration.
ValidRun ==
    /\ ValidCall
    /\ FirstUnstyled = 0
    /\ circles_per_column >= 1 /\ _radius > 0 /\ _x_init >= 0 /\ _y_init >= 0

\* The generator is exhausted with N placements and G summaries emitted, the
\* last record being the summary of the last group.
ExhaustedAfterAll ==
    /\ pc = "done"
    /\ Len(out) = Len(Rows) + NumGroups
    /\ Cardinality(AllPlacements) = Len(Rows)
    /\ NumGroups > 0 =>
         /\ IsSummary(out[Len(out)])
         /\ out[Len(out)].group_label = GroupAt(NumGroups)

\* C15: in a valid configuration, on a dataset of N records in G groups that
\* all have a style entry, a generator that is consumed eventually is
\* exhausted, having emitted exactly N + G records of which the last is the
\* summary of the last group; and a further next() on the exhausted generator
\* emits nothing.
C15_Terminates ==
    /\ (pc = "created" /\ ValidRun) ~> ExhaustedAfterAll
    /\ [][(pc = "done" /\ pc' = "done") => out' = out]_vars

\* An exhausted generator, asked once more, after a run over five records in
\* two groups: seven records emitted.
C15_Witness ==
    /\ ExhaustedAfterAll
    /\ ValidRun
    /\ Len(Rows) = 5
    /\ NumGroups = 2
    /\ Len(out) = 7

\* ------------------------------------------------- the order of emission

\* Runs on datasets whose groups and ordering keys are both free, with a sort
\* of either kind, in one configuration.
TieOrders == {"kept", "reversed"}
OrderDatasets == UNION {[1..len -> Row] : len \in 0..MaxRows}
InitOrder ==
    /\ _radius = 1
    /\ _pad = None
    /\ _x_init = 0
    /\ _y_init = 0
    /\ circles_per_column = MaxCpc
    /\ _plot_attributes = ConvertFrom(<<<<"a", Tuple3("a")>>, <<"b", Tuple3("b")>>>>, 1).value
    /\ NoGenerator
    /\ other = NoFrame
    /\ mapping = None
    /\ tie_order \in TieOrders
    /\ raised = ""
StartOrder == \E rows \in OrderDatasets : CircleGenerator(DataFrame(rows), "group", <<"key">>)
NextOrder ==
    \/ StartOrder
    \/ NextCreated
    \/ NextAfterCircle
    \/ NextAfterLabel
SpecOrder == InitOrder /\ [][NextOrder]_vars

\* The position in the input of the first row of group g.
FirstOccurrence(g) == CHOOSE n \in 1..Len(Rows) : Rows[n][1] = g /\ \A k \in 1..(n - 1) : Rows[k][1] # g

\* C13 as stated: the placements come out ordered by (position of the group's
\* first occurrence in the input, ordering key descending, original input
\* position): groups in first-occurrence order, inside a group a larger key
\* before a smaller one, and equal keys in input order.
C13_EmissionOrder ==
    \A a \in AllPlacements, b \in AllPlacements :
      (a < b) =>
        \/ FirstOccurrence(out[a].group) < FirstOccurrence(out[b].group)
        \/ /\ out[a].group = out[b].group
           /\ \/ out[a].row.key > out[b].row.key
              \/ /\ out[a].row.key = out[b].row.key
                 /\ out[a].row.Index < out[b].row.Index

\* The part of C13 that holds whatever the sort does with equal keys: groups
\* in first-occurrence order, and inside a group never a smaller key before a
\* larger one.
C13_ExceptTies ==
    \A a \in AllPlacements, b \in AllPlacements :
      (a < b) =>
        \/ FirstOccurrence(out[a].group) < FirstOccurrence(out[b].group)
        \/ /\ out[a].group = out[b].group
           /\ out[a].row.key >= out[b].row.key

\* A run on b, a, b, a with the keys of a ascending in the input: a is emitted
\* after b, larger key first.
C13_ExceptTies_Witness ==
    /\ pc = "done"
    /\ Len(Rows) = 4
    /\ Rows[1] = <<"b", 1>> /\ Rows[2] = <<"a", 1>> /\ Rows[3] = <<"b", 1>> /\ Rows[4] = <<"a", 2>>
    /\ out[1].group = "b"
    /\ out[4].row.Index = 3
    /\ out[5].row.Index = 1

\* ------------------------------------------------------- two generators

\* circle_generator called a second time with the arguments of the first: a
\* second generator object, none of whose body has run.  It is the suspended
\* one until the caller turns to it.
Second ==
    /\ pc # "none"
    /\ other = NoFrame
    /\ other' = Frame("created", NoFrame.locals, <<>>)
    /\ raised' = ""
    /\ UNCHANGED <<config, call, locals, pc, out, mapping, tie_order>>

\* The caller turns from one generator to the other: the one that ran is
\* suspended with its locals, the other is the one next() is called on.  The
\* locals live in the generators' frames; the plotter is shared.
Switch ==
    /\ other # NoFrame
    /\ other' = Frame(pc, locals, out)
    /\ pc' = other.pc
    /\ x' = other.locals[1]
    /\ y' = other.locals[2]
    /\ i' = other.locals[3]
    /\ gi' = other.locals[4]
    /\ circle_pad' = other.locals[5]
    /\ group_pad' = other.locals[6]
    /\ point_history' = other.locals[7]
    /\ out' = other.out
    /\ UNCHANGED <<config, call, raised, mapping, tie_order>>

\* Two invocations on one plotter with the same arguments, consumed one after
\* the other or step by step in turns, in every configuration the setters
\* accept with x_init = y_init = 0.
InitTwo ==
    /\ _radius \in {v \in RadiusInputs : ~(v <= 0)}
    /\ _pad = None
    /\ _x_init = 0
    /\ _y_init = 0
    /\ circles_per_column \in CpcInputs
    /\ _plot_attributes \in {ConvertFrom(d.items, 1).value : d \in StyleDicts}
    /\ NoGenerator
    /\ Alone
    /\ raised = ""
NextTwo ==
    \/ Start
    \/ Second
    \/ Switch
    \/ NextCreated
    \/ NextAfterCircle
    \/ NextAfterLabel
SpecTwo == InitTwo /\ [][NextTwo]_vars

IsPrefix(s, t) == Len(s) <= Len(t) /\ \A n \in 1..Len(s) : s[n] = t[n]

\* C12: two invocations of circle_generator on one plotter, with the same
\* configuration and arguments, yield the same sequence of records whether
\* they are consumed one after the other or in turns: at every moment the
\* output of one is a prefix of the output of the other, with what has ended
\* (by exhaustion or by an error) never the shorter of the two unless the
\* other has still to catch up, and two that have both ended have yielded the
\* same and ended alike.
C12_SameOutput ==
    (other # NoFrame) =>
      /\ IsPrefix(out, other.out) \/ IsPrefix(other.out, out)
      /\ pc \in {"done", "failed"} => IsPrefix(other.out, out)
      /\ other.pc \in {"done", "failed"} => IsPrefix(out, other.out)
      /\ (pc \in {"done", "failed"} /\ other.pc \in {"done", "failed"}) =>
           /\ out = other.out
           /\ pc = other.pc

\* Two generators consumed in turns, both in the middle of their runs: the one
\* suspended after the first group's summary, the other one record further.
C12_Witness ==
    /\ other.pc = "label"
    /\ Len(other.out) = 3
    /\ pc = "circle"
    /\ Len(out) = 4
    /\ out[4].x > out[1].x

\* -------------------------------------------------- the caller's mapping

\* The caller builds a dict and keeps it: made is what the caller put in it,
\* items what it holds now, results how the assignments of it so far ended.
MappingInputs ==
    StyleDicts
    \cup {Dict(<<<<"a", Tuple3("a")>>,
                 <<"b", [kind |-> "tuple", items |-> <<"red", Num(AlphaOne)>>]>>>>),
          Dict(<<<<"a", [kind |-> "tuple", items |-> <<"notacolor", Num(AlphaOne), "a">>]>>,
                 <<"b", Tuple3("b")>>>>)}
MakeMapping ==
    /\ \E d \in MappingInputs : mapping' = [made |-> d.items, items |-> d.items, results |-> <<>>]
    /\ UNCHANGED <<config, call, locals, pc, out, raised, other, tie_order>>

\* The kept dict is assigned to plot_attributes, at most twice; constructing
\* another CirclePlotter from it runs the same setter on it.
AssignMapping ==
    /\ mapping # None
    /\ Len(mapping.results) < 2
    /\ SetPlotAttributesOfMapping
AssignLiteral == \E d \in StyleDicts \cup BadStyleDicts : SetPlotAttributes(d)

InitMapping ==
    /\ _radius = 1
    /\ _pad = None
    /\ _x_init = 0
    /\ _y_init = 0
    /\ circles_per_column = MaxCpc
    /\ _plot_attributes = <<>>
    /\ NoGenerator
    /\ Alone
    /\ raised = ""
NextMapping ==
    \/ MakeMapping
    \/ AssignMapping
    \/ AssignLiteral
SpecMapping == InitMapping /\ [][NextMapping]_vars

\* C17 as stated: validating a style mapping does not modify the mapping
\* object the caller supplied, whether the assignment is accepted or rejected;
\* and a mapping that was accepted once is accepted again when it is assigned a
\* second time.
C17_MappingUntouched ==
    (mapping # None) =>
      /\ mapping.items = mapping.made
      /\ (Len(mapping.results) = 2 /\ mapping.results[1] = "") => mapping.results[2] = ""

\* Its second part alone, which fails as well: a mapping with an entry, once
\* accepted, is rejected at its next assignment.
C17_AcceptedAgain ==
    (mapping # None /\ Len(mapping.results) = 2 /\ mapping.results[1] = "") =>
      mapping.results[2] = ""

\* Its third part, as far as the plotter goes, which holds: an assignment that
\* raises leaves the plotter's styles as they were.
C17_RejectedKeepsStyles ==
    [][raised' \in {"TypeError", "ValueError"} => _plot_attributes' = _plot_attributes]_vars

\* ------------------------------------- assignments while a generator runs

\* The plotter is assigned to between the next() calls of a generator.  Two
\* generators are made on the same arguments in one configuration.  The first,
\* the reference, is consumed to its end; then the caller turns to the second,
\* and once that one has begun the setters are called, with values they
\* accept, between its steps.
SecondLive == pc = "created" /\ Second
TurnToSecond == pc \in {"done", "failed"} /\ other.pc = "created" /\ Switch
Live ==
    /\ other.pc \in {"done", "failed"}
    /\ pc \in {"circle", "label"}
LiveRadius == Live /\ \E v \in {v \in RadiusInputs : ~(v <= 0)} : SetRadius(v)
LiveXInit == Live /\ \E v \in {v \in InitInputs : ~(v < 0)} : SetXInit(v)
LiveYInit == Live /\ \E v \in {v \in InitInputs : ~(v < 0)} : SetYInit(v)
LiveCirclesPerColumn == Live /\ \E v \in 1..MaxCpc : SetCirclesPerColumn(v)

InitLive ==
    /\ _radius = 1
    /\ _pad = None
    /\ _x_init = 0
    /\ _y_init = 0
    /\ circles_per_column = MaxCpc
    /\ _plot_attributes = ConvertFrom(<<<<"a", Tuple3("a")>>, <<"b", Tuple3("b")>>>>, 1).value
    /\ NoGenerator
    /\ Alone
    /\ raised = ""
\* The datasets are the shorter ones: every assignment between two steps
\* multiplies the outputs the rest of a run can give.
LiveCalls == {c \in GoodCalls : Len(c[1].rows) < MaxRows - 1}
StartLive == \E c \in LiveCalls : CircleGenerator(c[1], c[2], c[3])
NextLive ==
    \/ StartLive
    \/ SecondLive
    \/ TurnToSecond
    \/ NextCreated
    \/ NextAfterCircle
    \/ NextAfterLabel
    \/ LiveRadius
    \/ LiveXInit
    \/ LiveYInit
    \/ LiveCirclesPerColumn
SpecLive == InitLive /\ [][NextLive]_vars

\* C18 as stated: what a started generator yields is fixed by the
\* configuration it began under.  Against a reference generator consumed to
\* its end under that configuration, the generator that runs while radius,
\* x_init, y_init and circles_per_column are assigned to yields, record for
\* record, what the reference yielded, and ends where it ended.
C18_FixedAtStart ==
    (other.pc \in {"done", "failed"} /\ pc # "created") =>
      /\ Len(out) <= Len(other.out)
      /\ \A n \in 1..Len(out) : out[n] = other.out[n]
      /\ pc \in {"done", "failed"} => (Len(out) = Len(other.out) /\ pc = other.pc)

====
